---- MODULE Spec2Model ----
(***************************************************************************)
(* predictGender: the lexical scoring engine of phughesmcr/predictgender.  *)
(*                                                                         *)
(* One call of predictGender is one action.  The versions kept in the      *)
(* repository are modelled side by side: v0.5.0 (src/index.js), v0.6.3     *)
(* (src/unnamed/part_003) and v4.0.0 (src/unnamed/part_000).  The          *)
(* tokenizer, the n-gram generator and the lex-helpers package are         *)
(* external collaborators; they are modelled from the specification.       *)
(*                                                                         *)
(* Numbers are exact: a finite number is n/d + k * (-0.06724152), so that  *)
(* the intercept of the model keeps all its digits without leaving TLC's   *)
(* integers.  JavaScript's Infinity, -Infinity and NaN are separate values.*)
(***************************************************************************)
EXTENDS Integers, Sequences, FiniteSets, TLC

(***************************************************************************)
(* Bounds of the model.                                                    *)
(***************************************************************************)
\* The longest text, in words.
MaxLen == 3

(***************************************************************************)
(* Program constants.                                                      *)
(***************************************************************************)
\* The GENDER intercept is -0.06724152 = InterceptE8 / E8.
InterceptE8 == -6724152
E8 == 100000000
\* v0.6.3 defaults: places 16, max 99, min -99.
DefaultPlaces == 16
DefaultMax == 99
DefaultMin == -99
\* Number.prototype.toFixed rounds weights that carry at most this many
\* decimals; beyond it the lexicon's values are returned unchanged.
LexiconDecimals == 8

(***************************************************************************)
(* Exact arithmetic on JavaScript numbers.                                 *)
(***************************************************************************)
Abs(x) == IF x < 0 THEN -x ELSE x

RECURSIVE GCD(_, _)
GCD(a, b) == IF b = 0 THEN Abs(a) ELSE GCD(b, a % b)

RECURSIVE Pow10(_)
Pow10(p) == IF p = 0 THEN 1 ELSE 10 * Pow10(p - 1)

\* The finite number n/d + k * intercept, in lowest terms with d > 0.
Fin(n, d, k) ==
    LET s == IF d < 0 THEN -1 ELSE 1
        g == GCD(n, d)
    IN  [t |-> "fin", n |-> (s * n) \div g, d |-> (s * d) \div g, k |-> k]

Whole(i) == [t |-> "fin", n |-> i, d |-> 1, k |-> 0]
Zero == Whole(0)
PosInf == [t |-> "inf", n |-> 1, d |-> 1, k |-> 0]
NegInf == [t |-> "inf", n |-> -1, d |-> 1, k |-> 0]
NaN == [t |-> "nan", n |-> 0, d |-> 1, k |-> 0]
\* The intercept itself: 0 + 1 * (-0.06724152).
Intercept == [t |-> "fin", n |-> 0, d |-> 1, k |-> 1]

\* The sign of a/b - P/Q for b, Q > 0, without forming a * Q: a is compared
\* with the whole and the fractional part of P * b / Q.
CmpFrac(a, b, P, Q) ==
    LET T == P * b
        whole == T \div Q
        part == T % Q
    IN  IF a > whole THEN 1
        ELSE IF a = whole /\ part = 0 THEN 0
        ELSE -1

\* The sign of n/d + k * InterceptE8 / E8.
SignFin(x) ==
    LET g == GCD(InterceptE8, E8)
    IN  CmpFrac(x.n, x.d, (-x.k * InterceptE8) \div g, E8 \div g)

\* -1, 0 or 1; NaN has no sign (2).
Sign(x) ==
    CASE x.t = "fin" -> SignFin(x)
      [] x.t = "inf" -> x.n
      [] OTHER -> 2

Neg(x) ==
    CASE x.t = "fin" -> [x EXCEPT !.n = -x.n, !.k = -x.k]
      [] x.t = "inf" -> [x EXCEPT !.n = -x.n]
      [] OTHER -> x

\* a + b
Add(a, b) ==
    CASE a.t = "nan" \/ b.t = "nan" -> NaN
      [] a.t = "inf" /\ b.t = "inf" -> IF a.n = b.n THEN a ELSE NaN
      [] a.t = "inf" -> a
      [] b.t = "inf" -> b
      [] OTHER -> Fin(a.n * b.d + b.n * a.d, a.d * b.d, a.k + b.k)

\* a * b, for the products the program forms: neither factor carries the
\* intercept.
Mul(a, b) ==
    CASE a.t = "nan" \/ b.t = "nan" -> NaN
      [] a.t = "inf" \/ b.t = "inf" ->
            IF Sign(a) = 0 \/ Sign(b) = 0 THEN NaN
            ELSE IF Sign(a) = Sign(b) THEN PosInf ELSE NegInf
      [] OTHER -> Fin(a.n * b.n, a.d * b.d, 0)

\* a / b: x / 0 is an infinity and 0 / 0 is NaN, as in IEEE 754.
Div(a, b) ==
    CASE a.t = "nan" \/ b.t = "nan" -> NaN
      [] a.t = "inf" /\ b.t = "inf" -> NaN
      [] a.t = "inf" -> IF Sign(b) < 0 THEN Neg(a) ELSE a
      [] b.t = "inf" -> Zero
      [] Sign(b) = 0 ->
            IF Sign(a) = 0 THEN NaN
            ELSE IF Sign(a) > 0 THEN PosInf ELSE NegInf
      [] OTHER -> Fin(a.n * b.d, a.d * b.n, 0)

\* a < b and a > b; every comparison with NaN is false.
Less(a, b) ==
    /\ a.t # "nan"
    /\ b.t # "nan"
    /\ CASE a.t = "inf" /\ b.t = "inf" -> a.n < b.n
         [] a.t = "inf" -> a.n < 0
         [] b.t = "inf" -> b.n > 0
         [] OTHER -> Sign(Add(a, Neg(b))) < 0

Greater(a, b) == Less(b, a)

\* a and b are the same number (NaN equals nothing).
NumEq(a, b) ==
    /\ a.t # "nan"
    /\ b.t # "nan"
    /\ ~Less(a, b)
    /\ ~Less(b, a)

\* x * m rounded to the nearest integer, for x >= 0 and m a power of ten;
\* a tie goes up.  k * m * intercept is split into its whole part and a
\* fraction frac/q in [0, 1), so that no product leaves TLC's integers.
RoundScaled(x, m) ==
    LET g == GCD(InterceptE8, E8)
        q == E8 \div g
        km == x.k * m * InterceptE8
        whole == km \div E8
        frac == (km % E8) \div g
        base == ((x.n * m) \div x.d) + whole
        \* j - 1/2 <= x * m
        AtMost(j) ==
            CmpFrac(2 * (j - whole) * x.d - x.d - 2 * x.n * m, 2 * x.d, frac, q) <= 0
        cands == {j \in base .. base + 2 : AtMost(j)}
    IN  CHOOSE j \in cands : \A i \in cands : i <= j

\* Number(x.toFixed(places)): x rounded to `places` decimals, a tie going
\* away from zero.  The lexicon's weights and the intercept carry at most
\* LexiconDecimals decimals, so a larger `places` rounds below the model's
\* resolution and leaves the value as it is.
toFixed(x, places) ==
    IF x.t # "fin" \/ places >= LexiconDecimals THEN x
    ELSE LET m == Pow10(places)
         IN  IF SignFin(x) < 0
             THEN Fin(-RoundScaled(Neg(x), m), m, 0)
             ELSE Fin(RoundScaled(x, m), m, 0)

(***************************************************************************)
(* JavaScript values: what the caller passes and what a call returns.      *)
(***************************************************************************)
Undefined == [t |-> "undefined"]
Null == [t |-> "null"]
Bool(b) == [t |-> "boolean", b |-> b]
Str(s) == [t |-> "string", s |-> s]
Number(x) == [t |-> "number", x |-> x]
Array(a) == [t |-> "array", a |-> a]
\* An exception that leaves the call.
Throw(e) == [t |-> "throw", e |-> e]

\* v == null: null or undefined.
IsNullish(v) == v.t \in {"undefined", "null"}

\* The values JavaScript treats as true in `!v` and `a || b`.
Truthy(v) ==
    CASE v.t \in {"undefined", "null"} -> FALSE
      [] v.t = "boolean" -> v.b
      [] v.t = "string" -> v.s # ""
      [] v.t = "number" -> v.x.t # "nan" /\ Sign(v.x) # 0
      [] OTHER -> TRUE

\* a || b
Or(a, b) == IF Truthy(a) THEN a ELSE b

(***************************************************************************)
(* The lexicon: category -> (term -> weight), in the order of the file.    *)
(* data/lexicon.json is not part of the sources; two small lexica stand    *)
(* for it.  LexiconA is the lexicon of the specification's scenarios.      *)
(* LexiconB has a weight below -99 (as 'magnificent', -192.0206116, in the *)
(* README), bigrams, a weight with decimals, and no entry for "hello".     *)
(***************************************************************************)
Vocabulary == {"hello", "world"}

LexiconA ==
    [GENDER |-> << [word |-> "hello", weight |-> Whole(2)],
                   [word |-> "world", weight |-> Whole(-4)] >>]

LexiconB ==
    [GENDER |-> << [word |-> "world", weight |-> Whole(-192)],
                   [word |-> "hello world", weight |-> Whole(3)],
                   [word |-> "hello hello", weight |-> Fin(1, 4, 0)],
                   [word |-> "world hello", weight |-> Whole(-3)] >>]

Lexicons == {LexiconA, LexiconB}

(***************************************************************************)
(* The text argument.  A string is the sequence of its words; `pad` says   *)
(* that it has white space around them, so that "" is the string with no   *)
(* words and no padding and "  " the one with no words and padding.        *)
(***************************************************************************)
RECURSIVE SeqsUpTo(_, _)
SeqsUpTo(S, n) ==
    IF n = 0 THEN {<<>>}
    ELSE LET shorter == SeqsUpTo(S, n - 1)
         IN  shorter \cup {Append(q, w) : q \in shorter, w \in S}

Text(words, pad) == [t |-> "string", words |-> words, pad |-> pad]

Texts ==
    {Text(ws, FALSE) : ws \in SeqsUpTo(Vocabulary, MaxLen)} \cup {Text(<<>>, TRUE)}

StrArgs == {Null, Undefined} \cup Texts

\* !str for the text argument: null, undefined and "" are falsy.
NoString(str) == IsNullish(str) \/ (str.words = <<>> /\ ~str.pad)

\* str.toLowerCase().trim(); the words of the model are lower-case already.
Normalise(str) == [str EXCEPT !.pad = FALSE]

(***************************************************************************)
(* External collaborators.                                                 *)
(***************************************************************************)
\* happynodetokenizer: the unigram tokens of the text.  For a text without
\* words it returns either nothing (null) or an empty array; which one is
\* the tokenizer's choice (`none`).
tokenizer(str, none) ==
    IF str.words = <<>> THEN (IF none = "null" THEN Null ELSE Array(<<>>))
    ELSE Array(str.words)

\* simplengrams(str, n): the contiguous runs of n words, each an array.
simplengrams(str, n) ==
    [i \in 1 .. (IF Len(str.words) >= n THEN Len(str.words) - n + 1 ELSE 0) |->
        SubSeq(str.words, i, i + n - 1)]

(***************************************************************************)
(* v0.5.0 (src/index.js): helpers.                                         *)
(***************************************************************************)
\* Array.prototype.join(' ')
RECURSIVE Join(_)
Join(a) ==
    IF Len(a) = 0 THEN ""
    ELSE IF Len(a) = 1 THEN a[1]
    ELSE a[1] \o " " \o Join(Tail(a))

arr2string(arr) == [i \in 1 .. Len(arr) |-> Join(arr[i])]

\* The indexes of arr that hold el, ascending: the loop runs from the end
\* and puts each index found at the front.
RECURSIVE indexesOfFrom(_, _, _, _)
indexesOfFrom(arr, el, i, idxs) ==
    IF i = 0 THEN idxs
    ELSE indexesOfFrom(arr, el, i - 1,
                       IF arr[i] = el THEN <<i>> \o idxs ELSE idxs)

\* indexesOf starting one element before the last.
indexesOfShort(arr, el) == indexesOfFrom(arr, el, Len(arr) - 1, <<>>)

indexesOf(arr, el) == indexesOfFrom(arr, el, Len(arr), <<>>)

\* arr.indexOf(word) > -1
Includes(arr, word) == \E i \in 1 .. Len(arr) : arr[i] = word

\* getMatches050Loop ending one entry early.
RECURSIVE getMatches050LoopShort(_, _, _, _)
getMatches050LoopShort(arr, data, i, match) ==
    IF i >= Len(data) THEN match
    ELSE getMatches050LoopShort(arr, data, i + 1,
            IF Includes(arr, data[i].word)
            THEN Append(match, [word |-> data[i].word,
                                reps |-> Len(indexesOf(arr, data[i].word)),
                                weight |-> data[i].weight])
            ELSE match)

\* The words loop of getMatches over one category, entry i onwards.
RECURSIVE getMatches050Loop(_, _, _, _)
getMatches050Loop(arr, data, i, match) ==
    IF i > Len(data) THEN match
    ELSE getMatches050Loop(arr, data, i + 1,
            IF Includes(arr, data[i].word)
            THEN Append(match, [word |-> data[i].word,
                                reps |-> Len(indexesOf(arr, data[i].word)),
                                weight |-> data[i].weight])
            ELSE match)

\* getMatches(arr, lexicon): category -> match records.
getMatches050(arr, lex) ==
    [category \in DOMAIN lex |-> getMatches050Loop(arr, lex[category], 1, <<>>)]

\* calcLex050Loop without the frequency: lex += weight / wc.
RECURSIVE calcLex050LoopOnce(_, _, _, _)
calcLex050LoopOnce(obj, wc, i, lex) ==
    IF i > Len(obj) THEN lex
    ELSE calcLex050LoopOnce(obj, wc, i + 1,
            Add(lex, Mul(Div(Whole(1), Whole(wc)), obj[i].weight)))

\* calcLex(obj, wc, int): lex += (reps / wc) * weight per record, then the
\* intercept.
RECURSIVE calcLex050Loop(_, _, _, _)
calcLex050Loop(obj, wc, i, lex) ==
    IF i > Len(obj) THEN lex
    ELSE calcLex050Loop(obj, wc, i + 1,
            Add(lex, Mul(Div(Whole(obj[i].reps), Whole(wc)), obj[i].weight)))

\* calcLex050 without the intercept.
calcLex050NoInt(obj, wc, int) == calcLex050Loop(obj, wc, 1, Zero)

calcLex050(obj, wc, int) == Add(calcLex050Loop(obj, wc, 1, Zero), int)

\* Array.prototype.sort with the comparator a[x] - b[x]: an insertion sort,
\* which keeps rows with equal keys in their order.  `row` goes after the
\* last row whose key is not greater.
\* InsertRow putting the row before the rows with an equal key.
RECURSIVE InsertRowBeforeEqual(_, _, _)
InsertRowBeforeEqual(sorted, row, x) ==
    IF Len(sorted) = 0 THEN <<row>>
    ELSE LET last == sorted[Len(sorted)]
         IN  IF ~Less(last[x], row[x])
             THEN Append(InsertRowBeforeEqual(SubSeq(sorted, 1, Len(sorted) - 1), row, x),
                         last)
             ELSE Append(sorted, row)

RECURSIVE InsertRow(_, _, _)
InsertRow(sorted, row, x) ==
    IF Len(sorted) = 0 THEN <<row>>
    ELSE LET last == sorted[Len(sorted)]
         IN  IF Greater(last[x], row[x])
             THEN Append(InsertRow(SubSeq(sorted, 1, Len(sorted) - 1), row, x), last)
             ELSE Append(sorted, row)

RECURSIVE SortRows(_, _, _, _)
SortRows(arr, x, i, sorted) ==
    IF i > Len(arr) THEN sorted
    ELSE SortRows(arr, x, i + 1, InsertRow(sorted, arr[i], x))

\* sortByUse(arr, by): the column to sort by, lexical value by default.
sortByUse(arr, by) ==
    LET x == IF by = Str("total") THEN "total"
             ELSE IF by = Str("weight") THEN "weight"
             ELSE IF by = Str("freq") THEN "reps"
             ELSE "lex"
    IN  SortRows(arr, x, 1, <<>>)

\* prepareMatches(obj, by, wc): one row per record, with its total weight
\* and its lexical value, sorted.
\* prepareMatches050 with the lexical value of one occurrence in each row.
prepareMatches050PerTerm(obj, by, wc) ==
    sortByUse([i \in 1 .. Len(obj) |->
                  [word |-> obj[i].word,
                   reps |-> Whole(obj[i].reps),
                   weight |-> obj[i].weight,
                   total |-> Mul(Whole(obj[i].reps), obj[i].weight),
                   lex |-> Mul(Div(Whole(1), Whole(wc)), obj[i].weight)]],
              by)

prepareMatches050(obj, by, wc) ==
    sortByUse([i \in 1 .. Len(obj) |->
                  [word |-> obj[i].word,
                   reps |-> Whole(obj[i].reps),
                   weight |-> obj[i].weight,
                   total |-> Mul(Whole(obj[i].reps), obj[i].weight),
                   lex |-> Mul(Div(Whole(obj[i].reps), Whole(wc)), obj[i].weight)]],
              by)

(***************************************************************************)
(* The options object.  A property the caller did not set reads as         *)
(* undefined.                                                              *)
(***************************************************************************)
NoFields ==
    [ret |-> Undefined, output |-> Undefined, nGrams |-> Undefined,
     wcGrams |-> Undefined, sortBy |-> Undefined, places |-> Undefined,
     max |-> Undefined, min |-> Undefined, encoding |-> Undefined,
     noInt |-> Undefined]

Object(f) == [t |-> "object", f |-> f]

\* What one call leaves behind: the caller's options object after the call,
\* the values the call computed on its way (undefined when it returned
\* before computing them) and the value it returned or the exception it
\* threw.
Outcome(o, tk, wc, m, l, r) ==
    [opts |-> o, tokens |-> tk, wordcount |-> wc, matches |-> m, lex |-> l,
     result |-> r]

(***************************************************************************)
(* v0.5.0 (src/index.js): predictGender.                                   *)
(***************************************************************************)
\* The object made when the caller passes no options.
Defaults050 ==
    Object([NoFields EXCEPT !.ret = Str("gender"), !.nGrams = Bool(TRUE),
                            !.wcGrams = Bool(FALSE), !.sortBy = Str("total")])

\* gender050 with the two signs exchanged.
gender050Flipped(lex, ret) ==
    IF Greater(lex, Zero)
    THEN (IF ret = Str("gender") THEN Str("Male") ELSE Number(Whole(-1)))
    ELSE IF Less(lex, Zero)
    THEN (IF ret = Str("gender") THEN Str("Female") ELSE Number(Whole(1)))
    ELSE (IF ret = Str("gender") THEN Str("Unknown") ELSE Number(Zero))

\* The lexical value as a label ('gender') or as a number.
gender050(lex, ret) ==
    IF Less(lex, Zero)
    THEN (IF ret = Str("gender") THEN Str("Male") ELSE Number(Whole(-1)))
    ELSE IF Greater(lex, Zero)
    THEN (IF ret = Str("gender") THEN Str("Female") ELSE Number(Whole(1)))
    ELSE (IF ret = Str("gender") THEN Str("Unknown") ELSE Number(Zero))

\* Line 413: what a call returns when the tokenizer returns nothing.
noTokens050(ret) == IF ret = Str("gender") THEN Str("Unknown") ELSE Number(Zero)

\* predictGender050 counting the expanded tokens whatever wcGrams says.
predictGender050CountAll(str, opts, none, lexi) ==
    IF IsNullish(str) THEN Outcome(opts, Undefined, Undefined, Undefined, Undefined, Null)
    ELSE
    LET s == Normalise(str)
        given == IF IsNullish(opts) THEN Defaults050 ELSE opts
        o == Object([given.f EXCEPT !.ret = Or(@, Str("gender")),
                                    !.sortBy = Or(@, Str("total")),
                                    !.wcGrams = Or(@, Bool(FALSE))])
        \* the caller's own object is the one assigned to, when there is one
        after == IF IsNullish(opts) THEN opts ELSE o
        ret == o.f.ret
        tk == tokenizer(s, none)
    IN  IF IsNullish(tk)
        THEN Outcome(after, tk, Undefined, Undefined, Undefined, noTokens050(ret))
        ELSE
        LET tokens == IF Truthy(o.f.nGrams)
                      THEN tk.a \o arr2string(simplengrams(s, 2))
                                \o arr2string(simplengrams(s, 3))
                      ELSE tk.a
            wordcount == Len(tokens)
            matches == getMatches050(tokens, lexi)
            lex == calcLex050(matches.GENDER, wordcount, Intercept)
        IN  IF ret = Str("matches")
            THEN Outcome(after, Array(tokens), Number(Whole(wordcount)), Array(matches.GENDER),
                         Undefined,
                         Array(prepareMatches050(matches.GENDER, o.f.sortBy, wordcount)))
            ELSE Outcome(after, Array(tokens), Number(Whole(wordcount)), Array(matches.GENDER),
                         Number(lex),
                         IF ret = Str("lex") THEN Number(lex) ELSE gender050(lex, ret))

predictGender050(str, opts, none, lexi) ==
    IF IsNullish(str) THEN Outcome(opts, Undefined, Undefined, Undefined, Undefined, Null)
    ELSE
    LET s == Normalise(str)
        given == IF IsNullish(opts) THEN Defaults050 ELSE opts
        o == Object([given.f EXCEPT !.ret = Or(@, Str("gender")),
                                    !.sortBy = Or(@, Str("total")),
                                    !.wcGrams = Or(@, Bool(FALSE))])
        \* the caller's own object is the one assigned to, when there is one
        after == IF IsNullish(opts) THEN opts ELSE o
        ret == o.f.ret
        tk == tokenizer(s, none)
    IN  IF IsNullish(tk)
        THEN Outcome(after, tk, Undefined, Undefined, Undefined, noTokens050(ret))
        ELSE
        LET tokens == IF Truthy(o.f.nGrams)
                      THEN tk.a \o arr2string(simplengrams(s, 2))
                                \o arr2string(simplengrams(s, 3))
                      ELSE tk.a
            wordcount == IF Truthy(o.f.wcGrams) THEN Len(tokens) ELSE Len(tk.a)
            matches == getMatches050(tokens, lexi)
            lex == calcLex050(matches.GENDER, wordcount, Intercept)
        IN  IF ret = Str("matches")
            THEN Outcome(after, Array(tokens), Number(Whole(wordcount)), Array(matches.GENDER),
                         Undefined,
                         Array(prepareMatches050(matches.GENDER, o.f.sortBy, wordcount)))
            ELSE Outcome(after, Array(tokens), Number(Whole(wordcount)), Array(matches.GENDER),
                         Number(lex),
                         IF ret = Str("lex") THEN Number(lex) ELSE gender050(lex, ret))

\* The option objects a caller of v0.5.0 passes.
Opts050 ==
    {Undefined, Null} \cup
    {Object([NoFields EXCEPT !.ret = r, !.nGrams = g, !.wcGrams = w, !.sortBy = b]) :
        r \in {Undefined, Str("gender"), Str("number"), Str("lex"), Str("matches"),
               Str("other")},
        g \in {Undefined, Bool(TRUE), Bool(FALSE)},
        w \in {Undefined, Bool(TRUE), Bool(FALSE)},
        b \in {Undefined, Str("lex"), Str("freq"), Str("weight")}}

(***************************************************************************)
(* v0.4.0 (src/unnamed/part_003, lines 377-452): getMatches and calcLex.   *)
(***************************************************************************)
\* The words loop of getMatches over one category: [word, weight] for a term
\* that occurs once, [[word, ..., word], weight] for one that occurs more.
RECURSIVE getMatches040Loop(_, _, _, _)
getMatches040Loop(arr, data, i, match) ==
    IF i > Len(data) THEN match
    ELSE getMatches040Loop(arr, data, i + 1,
            IF Includes(arr, data[i].word)
            THEN LET reps == Len(indexesOf(arr, data[i].word))
                     words == [j \in 1 .. reps |-> data[i].word]
                 IN  Append(match,
                            IF reps > 1
                            THEN [first |-> Array(words), weight |-> data[i].weight]
                            ELSE [first |-> Str(data[i].word), weight |-> data[i].weight])
            ELSE match)

\* getMatches(arr, lexicon): category -> match items.
getMatches040(arr, lex) ==
    [category \in DOMAIN lex |-> getMatches040Loop(arr, lex[category], 1, <<>>)]

\* counts040 taking every item for a single occurrence.
counts040Ones(obj) == [i \in 1 .. Len(obj) |-> 1]

\* The first loop of calcLex: the length of the array of an item that holds
\* one, 1 otherwise.
counts040(obj) ==
    [i \in 1 .. Len(obj) |->
        IF obj[i].first.t = "array" THEN Len(obj[i].first.a) ELSE 1]

\* The second loop of calcLex: lex += (counts[i] / wc) * weights[i].
RECURSIVE calcLex040Loop(_, _, _, _, _)
calcLex040Loop(counts, weights, wc, i, lex) ==
    IF i > Len(counts) THEN lex
    ELSE calcLex040Loop(counts, weights, wc, i + 1,
            Add(lex, Mul(Div(Whole(counts[i]), Whole(wc)), weights[i])))

\* calcLex(obj, wc, int)
calcLex040(obj, wc, int) ==
    Add(calcLex040Loop(counts040(obj), [i \in 1 .. Len(obj) |-> obj[i].weight],
                       wc, 1, Zero),
        int)

(***************************************************************************)
(* v0.6.3 (src/unnamed/part_003).                                          *)
(***************************************************************************)
\* getMatches063Loop keeping the weights outside the bounds.
RECURSIVE getMatches063LoopOutside(_, _, _, _, _, _, _)
getMatches063LoopOutside(arr, data, places, min, max, i, match) ==
    IF i > Len(data) THEN match
    ELSE LET weight == toFixed(data[i].weight, places)
         IN  getMatches063LoopOutside(arr, data, places, min, max, i + 1,
                IF /\ Includes(arr, data[i].word)
                   /\ (Greater(weight, max) \/ Less(weight, min))
                THEN Append(match, [word |-> data[i].word,
                                    reps |-> Len(indexesOf(arr, data[i].word)),
                                    weight |-> weight])
                ELSE match)

\* getMatches063Loop without the test of the weight.
RECURSIVE getMatches063LoopUnfiltered(_, _, _, _, _, _, _)
getMatches063LoopUnfiltered(arr, data, places, min, max, i, match) ==
    IF i > Len(data) THEN match
    ELSE LET weight == toFixed(data[i].weight, places)
         IN  getMatches063LoopUnfiltered(arr, data, places, min, max, i + 1,
                IF Includes(arr, data[i].word)
                THEN Append(match, [word |-> data[i].word,
                                    reps |-> Len(indexesOf(arr, data[i].word)),
                                    weight |-> weight])
                ELSE match)

\* getMatches063Loop with the bounds included: min <= weight <= max.
RECURSIVE getMatches063LoopInclusive(_, _, _, _, _, _, _)
getMatches063LoopInclusive(arr, data, places, min, max, i, match) ==
    IF i > Len(data) THEN match
    ELSE LET weight == toFixed(data[i].weight, places)
         IN  getMatches063LoopInclusive(arr, data, places, min, max, i + 1,
                IF /\ Includes(arr, data[i].word)
                   /\ ~Greater(weight, max)
                   /\ ~Less(weight, min)
                THEN Append(match, [word |-> data[i].word,
                                    reps |-> Len(indexesOf(arr, data[i].word)),
                                    weight |-> weight])
                ELSE match)

\* getMatches063Loop comparing the rounded weight and keeping the weight of
\* the lexicon in the record.
RECURSIVE getMatches063LoopRaw(_, _, _, _, _, _, _)
getMatches063LoopRaw(arr, data, places, min, max, i, match) ==
    IF i > Len(data) THEN match
    ELSE LET weight == toFixed(data[i].weight, places)
         IN  getMatches063LoopRaw(arr, data, places, min, max, i + 1,
                IF /\ Includes(arr, data[i].word)
                   /\ Less(weight, max)
                   /\ Greater(weight, min)
                THEN Append(match, [word |-> data[i].word,
                                    reps |-> Len(indexesOf(arr, data[i].word)),
                                    weight |-> data[i].weight])
                ELSE match)

\* The words loop of getMatches over one category: the weight is rounded to
\* `places`, and the record is kept when min < weight < max.
RECURSIVE getMatches063Loop(_, _, _, _, _, _, _)
getMatches063Loop(arr, data, places, min, max, i, match) ==
    IF i > Len(data) THEN match
    ELSE LET weight == toFixed(data[i].weight, places)
         IN  getMatches063Loop(arr, data, places, min, max, i + 1,
                IF /\ Includes(arr, data[i].word)
                   /\ Less(weight, max)
                   /\ Greater(weight, min)
                THEN Append(match, [word |-> data[i].word,
                                    reps |-> Len(indexesOf(arr, data[i].word)),
                                    weight |-> weight])
                ELSE match)

\* getMatches(arr, lexicon, places, min, max)
getMatches063(arr, lex, places, min, max) ==
    [category \in DOMAIN lex |->
        getMatches063Loop(arr, lex[category], places, min, max, 1, <<>>)]

\* calcLex(obj, wc, int, places): as in v0.5.0, then rounded to `places`.
calcLex063(obj, wc, int, places) ==
    toFixed(Add(calcLex050Loop(obj, wc, 1, Zero), int), places)

\* sortArrBy(arr, by): by weight, by frequency, or by lexical value.
sortArrBy(arr, by) ==
    LET x == IF by = Str("weight") THEN "weight"
             ELSE IF by = Str("freq") THEN "reps"
             ELSE "lex"
    IN  SortRows(arr, x, 1, <<>>)

\* prepareMatches063 without the rounding of the lexical value.
prepareMatches063Unrounded(obj, by, wc, places) ==
    sortArrBy([i \in 1 .. Len(obj) |->
                  [word |-> obj[i].word,
                   reps |-> Whole(obj[i].reps),
                   weight |-> obj[i].weight,
                   lex |-> Mul(Div(Whole(obj[i].reps), Whole(wc)), obj[i].weight)]],
              by)

\* prepareMatches(obj, by, wc, places)
prepareMatches063(obj, by, wc, places) ==
    sortArrBy([i \in 1 .. Len(obj) |->
                  [word |-> obj[i].word,
                   reps |-> Whole(obj[i].reps),
                   weight |-> obj[i].weight,
                   lex |-> toFixed(Mul(Div(Whole(obj[i].reps), Whole(wc)),
                                       obj[i].weight), places)]],
              by)

\* The object made when the caller passes no options.
Defaults063 ==
    Object([NoFields EXCEPT !.output = Str("gender"), !.nGrams = Bool(TRUE),
                            !.wcGrams = Bool(FALSE), !.sortBy = Str("lex"),
                            !.places = Number(Whole(DefaultPlaces)),
                            !.max = Number(Whole(DefaultMax)),
                            !.min = Number(Whole(DefaultMin))])

\* The options after the `||` defaults.
defaults063(given) ==
    Object([given.f EXCEPT !.output = Or(@, Str("gender")),
                           !.sortBy = Or(@, Str("lex")),
                           !.nGrams = Or(@, Bool(TRUE)),
                           !.wcGrams = Or(@, Bool(FALSE)),
                           !.places = Or(@, Number(Whole(DefaultPlaces))),
                           !.max = Or(@, Number(Whole(DefaultMax))),
                           !.min = Or(@, Number(Whole(DefaultMin)))])

\* The lexical value as a label ('gender') or as a number.
gender063(lex, output) ==
    IF Less(lex, Zero)
    THEN (IF output = Str("gender") THEN Str("Male") ELSE Number(Whole(-1)))
    ELSE IF Greater(lex, Zero)
    THEN (IF output = Str("gender") THEN Str("Female") ELSE Number(Whole(1)))
    ELSE (IF output = Str("gender") THEN Str("Unknown") ELSE Number(Zero))

\* noTokens063 without the test of the output mode.
noTokens063Label(output) == Str("Unknown")

\* Line 237: what a call returns when the tokenizer returns nothing.
noTokens063(output) == IF output = Str("gender") THEN Str("Unknown") ELSE Number(Zero)

predictGender063(str, opts, none, lexi) ==
    IF NoString(str) THEN Outcome(opts, Undefined, Undefined, Undefined, Undefined, Null)
    ELSE
    LET s == Normalise(str)
        o == defaults063(IF Truthy(opts) THEN opts ELSE Defaults063)
        after == IF Truthy(opts) THEN o ELSE opts
        output == o.f.output
        places == o.f.places.x.n
        tk == tokenizer(s, none)
    IN  IF ~Truthy(tk)
        THEN Outcome(after, tk, Undefined, Undefined, Undefined, noTokens063(output))
        ELSE
        LET tokens == IF Truthy(o.f.nGrams)
                      THEN tk.a \o arr2string(simplengrams(s, 2))
                                \o arr2string(simplengrams(s, 3))
                      ELSE tk.a
            wordcount == IF Truthy(o.f.wcGrams) THEN Len(tokens) ELSE Len(tk.a)
            matches == getMatches063(tokens, lexi, places, o.f.min.x, o.f.max.x)
            lex == calcLex063(matches.GENDER, wordcount, Intercept, places)
        IN  IF output = Str("matches")
            THEN Outcome(after, Array(tokens), Number(Whole(wordcount)), Array(matches.GENDER),
                         Undefined,
                         Array(prepareMatches063(matches.GENDER, o.f.sortBy, wordcount,
                                                 places)))
            ELSE Outcome(after, Array(tokens), Number(Whole(wordcount)), Array(matches.GENDER),
                         Number(lex),
                         IF output = Str("lex") THEN Number(lex) ELSE gender063(lex, output))

\* The option objects a caller of v0.6.3 passes: sortBy is set only with
\* the output it applies to.
Opts063 ==
    {Undefined, Null} \cup
    {Object([NoFields EXCEPT !.output = ob[1], !.sortBy = ob[2], !.nGrams = g,
                             !.wcGrams = w, !.places = p, !.min = mn, !.max = mx]) :
        ob \in ({Undefined, Str("gender"), Str("number"), Str("lex")} \X {Undefined})
               \cup ({Str("matches")} \X {Undefined, Str("freq"), Str("weight")}),
        g \in {Undefined, Bool(FALSE)},
        w \in {Undefined, Bool(TRUE)},
        p \in {Undefined, Number(Zero), Number(Whole(1))},
        mn \in {Undefined, Number(Zero), Number(Whole(-3))},
        mx \in {Undefined, Number(Zero), Number(Whole(3))}}

(***************************************************************************)
(* lex-helpers, used by v4.0.0: getMatches, doLex and doMatches.  The      *)
(* package is not among the sources; it is modelled from the               *)
(* specification's Match Engine (4.1), Lexical Scorer (4.2) and Result     *)
(* Formatter (4.3).                                                        *)
(***************************************************************************)
\* itemCount(tokens): how often each token occurs.
itemCount(tokens) ==
    [w \in {tokens[i] : i \in 1 .. Len(tokens)} |->
        Cardinality({i \in 1 .. Len(tokens) : tokens[i] = w})]

\* The records of one category: the terms that occur, with a weight strictly
\* between min and max.
RECURSIVE lexHelpersMatchLoop(_, _, _, _, _, _)
lexHelpersMatchLoop(counts, data, min, max, i, match) ==
    IF i > Len(data) THEN match
    ELSE lexHelpersMatchLoop(counts, data, min, max, i + 1,
            IF /\ data[i].word \in DOMAIN counts
               /\ Less(data[i].weight, max)
               /\ Greater(data[i].weight, min)
            THEN Append(match, [word |-> data[i].word,
                                reps |-> counts[data[i].word],
                                weight |-> data[i].weight])
            ELSE match)

lexHelpersGetMatches(counts, lex, min, max) ==
    [category \in DOMAIN lex |->
        lexHelpersMatchLoop(counts, lex[category], min, max, 1, <<>>)]

RECURSIVE SumReps(_)
SumReps(obj) == IF Len(obj) = 0 THEN 0 ELSE obj[1].reps + SumReps(Tail(obj))

RECURSIVE SumWeights(_)
SumWeights(obj) ==
    IF Len(obj) = 0 THEN Zero ELSE Add(obj[1].weight, SumWeights(Tail(obj)))

\* places, when the caller gave a number of decimals
Rounded(x, places) ==
    IF places.t = "number" THEN toFixed(x, places.x.n) ELSE x

\* doLex for one category: the score in the chosen encoding; 0 when the
\* word count is 0.
doLexValue(obj, int, encoding, wc, places) ==
    IF wc = 0 THEN Zero
    ELSE IF encoding = Str("percent")
    THEN Rounded(Div(Whole(SumReps(obj)), Whole(wc)), places)
    ELSE IF encoding = Str("binary")
    THEN Rounded(Add(SumWeights(obj), int), places)
    ELSE Rounded(Add(calcLex050Loop(obj, wc, 1, Zero), int), places)

doLex(matches, ints, encoding, wc, places) ==
    [category \in DOMAIN matches |->
        doLexValue(matches[category], ints[category], encoding, wc, places)]

\* doMatches for one category: the rows, ascending by the chosen key.
doMatchesRows(obj, encoding, wc, sortBy, places) ==
    sortArrBy([i \in 1 .. Len(obj) |->
                  [word |-> obj[i].word,
                   reps |-> Whole(obj[i].reps),
                   weight |-> obj[i].weight,
                   lex |-> Rounded(Mul(Div(Whole(obj[i].reps), Whole(wc)),
                                       obj[i].weight), places)]],
              sortBy)

doMatches(matches, encoding, wc, sortBy, places) ==
    [category \in DOMAIN matches |->
        doMatchesRows(matches[category], encoding, wc, sortBy, places)]

(***************************************************************************)
(* v4.0.0 (src/unnamed/part_000): predictGender.                           *)
(***************************************************************************)
\* The output strings of the model that contain `pattern`, whatever the
\* case of their letters: output.match(/pattern/gi).
OutputStrings == {"gender", "GENDER", "number", "lex", "matches", "full", "other"}

Containing(pattern) ==
    CASE pattern = "gender" -> {"gender", "GENDER"}
      [] OTHER -> {pattern}

match(output, pattern) == output.s \in Containing(pattern)

\* Number(v)
ToNumber(v) ==
    CASE v.t = "number" -> v.x
      [] v.t = "null" -> Zero
      [] v.t = "boolean" -> IF v.b THEN Whole(1) ELSE Zero
      [] OTHER -> NaN

\* Lines 73-89: the defaults of the options.
\* defaults400 leaving in the caller's object the opposite of the noInt it
\* found there.
defaults400Toggling(given) ==
    [given EXCEPT
        !.encoding = IF @ = Undefined THEN Str("freq") ELSE @,
        !.max = IF @ = Undefined THEN Number(PosInf) ELSE @,
        !.min = IF @ \in {Undefined, Str("abc")} THEN Number(NegInf) ELSE @,
        !.noInt = IF @ = Bool(TRUE) THEN Bool(FALSE) ELSE Bool(TRUE),
        !.output = IF @ = Undefined THEN Str("lex") ELSE @,
        !.sortBy = IF @ = Undefined THEN Str("freq") ELSE @]

defaults400(given) ==
    LET max1 == IF given.max = Undefined THEN Number(PosInf) ELSE given.max
        min1 == IF given.min = Undefined THEN Number(NegInf) ELSE given.min
        convert == max1.t # "number" \/ min1.t # "number"
    IN  [given EXCEPT
            !.encoding = IF @ = Undefined THEN Str("freq") ELSE @,
            !.max = IF convert THEN Number(ToNumber(max1)) ELSE max1,
            !.min = IF convert THEN Number(ToNumber(min1)) ELSE min1,
            !.noInt = IF @ = Undefined THEN Bool(FALSE) ELSE @,
            !.output = IF @ = Undefined THEN Str("lex") ELSE @,
            !.sortBy = IF @ = Undefined THEN Str("freq") ELSE @]

\* gender400 taking every lexical value for a positive one.
gender400Positive(lex, output) ==
    IF match(output, "gender") THEN Str("Female") ELSE Number(Whole(1))

\* Lines 126-134: the lexical value as a label or as a number.
gender400(lex, output) ==
    IF Less(lex, Zero)
    THEN (IF match(output, "gender") THEN Str("Male") ELSE Number(Whole(-1)))
    ELSE IF Greater(lex, Zero)
    THEN (IF match(output, "gender") THEN Str("Female") ELSE Number(Whole(1)))
    ELSE (IF match(output, "gender") THEN Str("Unknown") ELSE Number(Zero))

\* ints400 keeping the intercept whatever noInt says.
ints400Kept(noInt) == [GENDER |-> Intercept]

\* Lines 119-120: the intercepts, zeroed when noInt is true.
ints400(noInt) == [GENDER |-> IF noInt = Bool(TRUE) THEN Zero ELSE Intercept]

predictGender400(str, opts, none, lexi) ==
    \* the default parameter replaces undefined only: null.encoding throws
    IF opts = Null
    THEN Outcome(opts, Undefined, Undefined, Undefined, Undefined, Throw("TypeError"))
    ELSE
    LET o == Object(defaults400(IF opts = Undefined THEN NoFields ELSE opts.f))
        after == IF opts = Undefined THEN opts ELSE o
        output == o.f.output
        places == o.f.places
    IN  IF NoString(str)
        THEN Outcome(after, Undefined, Undefined, Undefined, Undefined, Null)
        ELSE
        LET tk == tokenizer(Normalise(str), none)
        IN  IF ~Truthy(tk)
            THEN Outcome(after, tk, Undefined, Undefined, Undefined, Null)
            ELSE
            LET wordcount == Len(tk.a)
                matches == lexHelpersGetMatches(itemCount(tk.a), lexi, o.f.min.x, o.f.max.x)
                ints == ints400(o.f.noInt)
                lex == doLex(matches, ints, o.f.encoding, wordcount, places)
                rows == doMatches(matches, o.f.encoding, wordcount, o.f.sortBy, places)
                gender == gender400(lex.GENDER, output)
                Out(l, r) == Outcome(after, tk, Number(Whole(wordcount)),
                                     Array(matches.GENDER), l, r)
                                 @@ [ints |-> Number(ints.GENDER)]
            IN  \* line 121: output.match is defined for strings only
                IF output.t # "string" THEN Out(Undefined, Throw("TypeError"))
                ELSE IF match(output, "matches")
                THEN Out(Undefined, Object([GENDER |-> Array(rows.GENDER)]))
                ELSE IF match(output, "full")
                THEN Out(Number(lex.GENDER),
                         Object([gender |-> gender, lex |-> Number(lex.GENDER),
                                 matches |-> Object([GENDER |-> Array(rows.GENDER)])]))
                ELSE IF match(output, "gender") \/ match(output, "number")
                THEN Out(Number(lex.GENDER), gender)
                ELSE Out(Number(lex.GENDER), Object([GENDER |-> Number(lex.GENDER)]))

\* The option objects a caller of v4.0.0 passes.
Opts400 ==
    {Undefined, Null} \cup
    {Object([NoFields EXCEPT !.output = ob, !.noInt = ni, !.encoding = e,
                             !.min = mn, !.max = mx, !.places = p]) :
        ob \in {Undefined, Number(Whole(1))} \cup {Str(x) : x \in OutputStrings},
        ni \in {Undefined, Bool(TRUE)},
        e \in {Undefined, Str("binary"), Str("percent")},
        mn \in {Undefined, Number(Whole(-3)), Str("abc")},
        mx \in {Undefined, Number(Whole(3))},
        p \in {Undefined, Number(Whole(1))}}

(***************************************************************************)
(* v1.0.0-rc.1 (src/unnamed/part_002): predictGender.  getMatches, calcLex *)
(* and prepareMatches are those of lex-helpers.                            *)
(***************************************************************************)
\* The object made when the caller passes no options.
Defaults100 ==
    Object([NoFields EXCEPT !.encoding = Str("freq"), !.max = Number(PosInf),
                            !.min = Number(NegInf), !.nGrams = Bool(TRUE),
                            !.output = Str("gender"),
                            !.places = Number(Whole(DefaultPlaces)),
                            !.sortBy = Str("lex"), !.wcGrams = Bool(FALSE)])

\* Lines 345-352: the options after the `||` defaults.
defaults100(given) ==
    Object([given.f EXCEPT !.encoding = Or(@, Str("freq")),
                           !.max = Or(@, Number(PosInf)),
                           !.min = Or(@, Number(NegInf)),
                           !.nGrams = Or(@, Bool(TRUE)),
                           !.output = Or(@, Str("gender")),
                           !.places = Or(@, Number(Whole(DefaultPlaces))),
                           !.sortBy = Or(@, Str("lex")),
                           !.wcGrams = Or(@, Bool(FALSE))])

\* gender100 returning the lexical value itself.
gender100Raw(lex, output) == Number(lex)

\* Lines 384-391: the lexical value as a label ('gender') or as a number.
gender100(lex, output) ==
    IF Less(lex, Zero)
    THEN (IF output = Str("gender") THEN Str("Male") ELSE Number(Whole(-1)))
    ELSE IF Greater(lex, Zero)
    THEN (IF output = Str("gender") THEN Str("Female") ELSE Number(Whole(1)))
    ELSE (IF output = Str("gender") THEN Str("Unknown") ELSE Number(Zero))

predictGender100(str, opts, none, lexi) ==
    IF NoString(str) THEN Outcome(opts, Undefined, Undefined, Undefined, Undefined, Null)
    ELSE
    LET s == Normalise(str)
        o == defaults100(IF Truthy(opts) THEN opts ELSE Defaults100)
        after == IF Truthy(opts) THEN o ELSE opts
        output == o.f.output
        places == o.f.places
        tk == tokenizer(s, none)
    IN  IF ~Truthy(tk)
        THEN Outcome(after, tk, Undefined, Undefined, Undefined,
                     IF output = Str("gender") THEN Str("Unknown") ELSE Number(Zero))
        ELSE
        LET tokens == IF Truthy(o.f.nGrams)
                      THEN tk.a \o arr2string(simplengrams(s, 2))
                                \o arr2string(simplengrams(s, 3))
                      ELSE tk.a
            wordcount == IF Truthy(o.f.wcGrams) THEN Len(tokens) ELSE Len(tk.a)
            matches == lexHelpersGetMatches(itemCount(tokens), lexi, o.f.min.x, o.f.max.x)
            rows == doMatchesRows(matches.GENDER, o.f.encoding, wordcount, o.f.sortBy,
                                  places)
            lex == doLexValue(matches.GENDER, Intercept, o.f.encoding, wordcount, places)
            gender == gender100(lex, output)
            Out(l, r) == Outcome(after, Array(tokens), Number(Whole(wordcount)),
                                 Array(matches.GENDER), l, r)
        IN  IF output = Str("matches") THEN Out(Undefined, Array(rows))
            ELSE IF output = Str("lex") THEN Out(Number(lex), Number(lex))
            ELSE IF output = Str("full")
            THEN Out(Number(lex),
                     Object([number |-> gender, lex |-> Number(lex),
                             matches |-> Array(rows)]))
            ELSE Out(Number(lex), gender)

\* The option objects a caller of v1.0.0-rc.1 passes.
Opts100 ==
    {Undefined, Null} \cup
    {Object([NoFields EXCEPT !.output = ob, !.min = mn, !.wcGrams = w]) :
        ob \in {Undefined} \cup {Str(x) : x \in OutputStrings \ {"GENDER"}},
        mn \in {Undefined, Number(Whole(-3))},
        w \in {Undefined, Bool(TRUE)}}

(***************************************************************************)
(* The state: the lexicon loaded at start, and the last call.              *)
(***************************************************************************)
VARIABLES
    lexicon,    \* the lexicon, loaded once
    pc,         \* "idle", or "done" after a call
    ver,        \* the version called
    str,        \* the text argument of the call
    optsArg,    \* the options argument as the caller passed it
    call,       \* the Outcome of the call
    earlier     \* the call made before this one with the same text, if any

vars == <<lexicon, pc, ver, str, optsArg, call, earlier>>

\* No call was made before.
NoEarlier == [same |-> FALSE, optsArg |-> Undefined, call |-> Undefined]

NoCall == Outcome(Undefined, Undefined, Undefined, Undefined, Undefined, Undefined)

Init ==
    /\ lexicon \in Lexicons
    /\ pc = "idle"
    /\ ver = "none"
    /\ str = Undefined
    /\ optsArg = Undefined
    /\ call = NoCall
    /\ earlier = NoEarlier

\* The tokenizer's answers for a text without words.
NoTokens == {"null", "array"}

\* One call of predictGender (v0.5.0).
Call050 ==
    /\ pc = "idle"
    /\ \E s \in StrArgs, o \in Opts050, none \in NoTokens :
        /\ str' = s
        /\ optsArg' = o
        /\ call' = predictGender050(s, o, none, lexicon)
    /\ pc' = "done"
    /\ ver' = "0.5.0"
    /\ UNCHANGED <<lexicon, earlier>>

\* One call of predictGender (v0.6.3).
Call063 ==
    /\ pc = "idle"
    /\ \E s \in StrArgs, o \in Opts063, none \in NoTokens :
        /\ str' = s
        /\ optsArg' = o
        /\ call' = predictGender063(s, o, none, lexicon)
    /\ pc' = "done"
    /\ ver' = "0.6.3"
    /\ UNCHANGED <<lexicon, earlier>>

\* One call of predictGender (v4.0.0).
Call400 ==
    /\ pc = "idle"
    /\ \E s \in StrArgs, o \in Opts400, none \in NoTokens :
        /\ str' = s
        /\ optsArg' = o
        /\ call' = predictGender400(s, o, none, lexicon)
    /\ pc' = "done"
    /\ ver' = "4.0.0"
    /\ UNCHANGED <<lexicon, earlier>>

\* One call of predictGender (v1.0.0-rc.1).
Call100 ==
    /\ pc = "idle"
    /\ \E s \in StrArgs, o \in Opts100, none \in NoTokens :
        /\ str' = s
        /\ optsArg' = o
        /\ call' = predictGender100(s, o, none, lexicon)
    /\ pc' = "done"
    /\ ver' = "1.0.0-rc.1"
    /\ UNCHANGED <<lexicon, earlier>>

\* The caller takes the result; nothing of the call is kept.
Return ==
    /\ pc \in {"done", "again"}
    /\ pc' = "idle"
    /\ ver' = "none"
    /\ str' = Undefined
    /\ optsArg' = Undefined
    /\ call' = NoCall
    /\ earlier' = NoEarlier
    /\ UNCHANGED lexicon

\* What the tokenizer did in a call, to be done again for the same text.
NoneOf(c) == IF c.tokens = Null THEN "null" ELSE "array"

\* predictGender of version v.
predictGender(v, s, o, none, lexi) ==
    CASE v = "0.5.0" -> predictGender050(s, o, none, lexi)
      [] v = "0.6.3" -> predictGender063(s, o, none, lexi)
      [] v = "1.0.0-rc.1" -> predictGender100(s, o, none, lexi)
      [] v = "4.0.0" -> predictGender400(s, o, none, lexi)

\* The caller calls again with the same text: it passes the options object
\* of the call before, as that call left it, or no options at all.
CallAgain ==
    /\ pc = "done"
    /\ \E same \in BOOLEAN :
        LET o == IF ~same THEN Undefined
                 ELSE IF optsArg.t = "object" THEN call.opts
                 ELSE optsArg
        IN  /\ optsArg' = o
            /\ call' = predictGender(ver, str, o, NoneOf(call), lexicon)
            /\ earlier' = [same |-> same, optsArg |-> optsArg, call |-> call]
    /\ pc' = "again"
    /\ UNCHANGED <<lexicon, ver, str>>

Next ==
    \/ Call050
    \/ Call063
    \/ Call400
    \/ Call100
    \/ Return

Spec == Init /\ [][Next]_vars

\* The calls, and the calls made again.
NextAgain ==
    \/ Next
    \/ CallAgain

SpecAgain == Init /\ [][NextAgain]_vars

(***************************************************************************)
(* Properties.                                                             *)
(***************************************************************************)
Done == pc = "done"
\* The call computed a lexical value.
Scored == Done /\ call.lex.t = "number"
\* The call computed a match set.
Matched == Done /\ call.matches.t = "array"

EmptyText == str = Text(<<>>, FALSE)
\* "" or white space only: a text the tokenizer finds no token in.
Wordless == str.t = "string" /\ str.words = <<>>

\* The mode asked for, from the options as the caller passed them.
Ret050 ==
    IF IsNullish(optsArg) THEN Str("gender") ELSE Or(optsArg.f.ret, Str("gender"))
Output063 ==
    IF IsNullish(optsArg) THEN Str("gender") ELSE Or(optsArg.f.output, Str("gender"))
Output400 ==
    IF optsArg = Undefined \/ optsArg.f.output = Undefined
    THEN Str("lex") ELSE optsArg.f.output

\* C1: for every score s computed by v0.5.0 and v4.0.0, exactly one of
\* s < 0, s > 0, s = 0 holds; 'gender' mode returns "Male", "Female",
\* "Unknown" and 'number' mode returns -1, 1, 0 exactly in these cases.
SignContract ==
    (Scored /\ ver \in {"0.5.0", "4.0.0"}) =>
        LET s == call.lex.x
            mode == IF ver = "0.5.0" THEN Ret050 ELSE Output400
            neg == Less(s, Zero)
            pos == Greater(s, Zero)
            zero == NumEq(s, Zero)
        IN  /\ neg \/ pos \/ zero
            /\ ~(neg /\ pos) /\ ~(neg /\ zero) /\ ~(pos /\ zero)
            /\ mode = Str("gender") =>
                /\ (call.result = Str("Male")) <=> neg
                /\ (call.result = Str("Female")) <=> pos
                /\ (call.result = Str("Unknown")) <=> zero
            /\ mode = Str("number") =>
                /\ (call.result = Number(Whole(-1))) <=> neg
                /\ (call.result = Number(Whole(1))) <=> pos
                /\ (call.result = Number(Zero)) <=> zero

\* A positive score of v0.5.0 returned as the number 1.
SignContractWitness ==
    /\ Scored
    /\ ver = "0.5.0"
    /\ Ret050 = Str("number")
    /\ Greater(call.lex.x, Zero)
    /\ call.result = Number(Whole(1))

\* C2, as stated: for empty text and for text without tokens, v0.6.3 and
\* v4.0.0 yield "Unknown" or the number 0, whatever the options.
EmptyInputUnknown ==
    (Done /\ ver \in {"0.6.3", "4.0.0"} /\ Wordless /\ optsArg # Null) =>
        call.result \in {Str("Unknown"), Number(Zero)}

\* C2, amended: empty text returns null in v0.6.3 and v4.0.0; when the
\* tokenizer returns no token sequence (null), v4.0.0 returns null and
\* v0.6.3 returns "Unknown" in 'gender' mode and 0 in every other mode.
EmptyInputNeutral ==
    (Done /\ ver \in {"0.6.3", "4.0.0"} /\ ~(ver = "4.0.0" /\ optsArg = Null)) =>
        /\ EmptyText => call.result = Null
        /\ (Wordless /\ call.tokens = Null) =>
              call.result = IF ver = "4.0.0" THEN Null
                            ELSE IF Output063 = Str("gender") THEN Str("Unknown")
                            ELSE Number(Zero)

\* White space only, no token sequence, 'number' mode of v0.6.3: 0.
EmptyInputNeutralWitness ==
    /\ Done
    /\ ver = "0.6.3"
    /\ str = Text(<<>>, TRUE)
    /\ call.tokens = Null
    /\ Output063 = Str("number")
    /\ call.result = Number(Zero)

\* C3: for a null, undefined or empty text and any options argument,
\* predictGender (v4.0.0) returns null, "Unknown" or 0 and does not throw.
NeverRaises400 ==
    (Done /\ ver = "4.0.0" /\ (IsNullish(str) \/ EmptyText)) =>
        call.result \in {Null, Str("Unknown"), Number(Zero)}

\* C4: with a word count of 0 the score of v0.5.0 is 0.
ZeroWordCountScoresZero ==
    (Scored /\ ver = "0.5.0" /\ call.wordcount = Number(Zero)) =>
        NumEq(call.lex.x, Zero)

\* The sum of frequency * weight over the records with index in S.
RECURSIVE TotalWeight(_, _)
TotalWeight(S, obj) ==
    IF S = {} THEN Zero
    ELSE LET i == CHOOSE j \in S : TRUE
         IN  Add(Mul(Whole(obj[i].reps), obj[i].weight), TotalWeight(S \ {i}, obj))

\* The sum over the match records of (frequency / wordcount) * weight, plus
\* the intercept.
FrequencyValue(obj, wc, int) ==
    IF Len(obj) = 0 THEN int
    ELSE Add(Div(TotalWeight(1 .. Len(obj), obj), Whole(wc)), int)

\* The number of decimals v0.6.3 rounds to, from the options as passed.
Places063 ==
    IF IsNullish(optsArg) THEN DefaultPlaces
    ELSE Or(optsArg.f.places, Number(Whole(DefaultPlaces))).x.n

Found == {call.matches.a[i].word : i \in 1 .. Len(call.matches.a)}
TokenSet == {call.tokens.a[i] : i \in 1 .. Len(call.tokens.a)}
Entries == {lexicon.GENDER[i] : i \in 1 .. Len(lexicon.GENDER)}
Terms == {e.word : e \in Entries}
\* The number of positions of the token sequence that hold `word`.
Occurrences(word) ==
    Cardinality({j \in 1 .. Len(call.tokens.a) : call.tokens.a[j] = word})

\* C6: without thresholds (v0.5.0) the match set holds exactly the lexicon
\* terms that occur in the token sequence, one record per term; no tokens
\* give no records.
MatchSetExact ==
    (Matched /\ ver = "0.5.0") =>
        /\ Found = Terms \cap TokenSet
        /\ Len(call.matches.a) = Cardinality(Found)
        /\ Len(call.tokens.a) = 0 => Len(call.matches.a) = 0

\* A term that occurs twice has one record, and a token that is no lexicon
\* term has none.
MatchSetExactWitness ==
    /\ Matched
    /\ ver = "0.5.0"
    /\ \E w \in Found : Occurrences(w) >= 2
    /\ TokenSet \ Terms # {}
    /\ Len(call.matches.a) = Cardinality(Found)

\* C7: the frequency of every match record is at least 1 and is the number
\* of positions of the (n-gram-expanded) token sequence that hold its term.
FrequencyIsCount ==
    (Matched /\ ver \in {"0.5.0", "0.6.3"}) =>
        \A i \in 1 .. Len(call.matches.a) :
            /\ call.matches.a[i].reps >= 1
            /\ call.matches.a[i].reps = Occurrences(call.matches.a[i].word)

\* A bigram counted twice in the expanded token sequence.
FrequencyIsCountWitness ==
    /\ Matched
    /\ ver = "0.5.0"
    /\ Len(call.tokens.a) > Len(str.words)
    /\ \E i \in 1 .. Len(call.matches.a) :
        /\ call.matches.a[i].word = "hello hello"
        /\ call.matches.a[i].reps = 2

\* The sum of the frequencies of the records.
RECURSIVE TotalReps(_)
TotalReps(obj) == IF Len(obj) = 0 THEN 0 ELSE obj[1].reps + TotalReps(Tail(obj))

\* The bounds and the rounded weight getMatches (v0.6.3) works with, from
\* the options as the caller passed them.
Min063 ==
    IF IsNullish(optsArg) THEN Whole(DefaultMin)
    ELSE Or(optsArg.f.min, Number(Whole(DefaultMin))).x
Max063 ==
    IF IsNullish(optsArg) THEN Whole(DefaultMax)
    ELSE Or(optsArg.f.max, Number(Whole(DefaultMax))).x
\* The weight of a lexicon entry passes the filter of the version called.
Passes(e) ==
    \/ ver = "0.5.0"
    \/ /\ Less(Min063, toFixed(e.weight, Places063))
       /\ Less(toFixed(e.weight, Places063), Max063)

\* C8, as stated: the frequencies of the match set add up to the number of
\* positions whose token is a lexicon term, thresholds or not.
FrequencySumAllTerms ==
    (Matched /\ ver \in {"0.5.0", "0.6.3"}) =>
        TotalReps(call.matches.a) =
            Cardinality({j \in 1 .. Len(call.tokens.a) : call.tokens.a[j] \in Terms})

\* C8, amended: the frequencies add up to the number of positions whose
\* token is a lexicon term that passes the weight filter in effect.
FrequencySumFiltered ==
    (Matched /\ ver \in {"0.5.0", "0.6.3"}) =>
        TotalReps(call.matches.a) =
            Cardinality({j \in 1 .. Len(call.tokens.a) :
                            \E e \in Entries : e.word = call.tokens.a[j] /\ Passes(e)})

\* v0.6.3 counts one term and filters another that occurs.
FrequencySumFilteredWitness ==
    /\ Matched
    /\ ver = "0.6.3"
    /\ TotalReps(call.matches.a) >= 2
    /\ \E e \in Entries : e.word \in TokenSet /\ ~Passes(e)

DefaultsExcludeNothing ==
    (/\ Matched
     /\ ver = "0.6.3"
     /\ IsNullish(optsArg) \/ (optsArg.f.min = Undefined /\ optsArg.f.max = Undefined)) =>
        Terms \cap TokenSet \subseteq Found

\* The bounds getMatches is called with a second time, on the tokens and
\* the lexicon of the call.
NarrowMins == {Whole(-3), Zero}
NarrowMaxs == {Zero, Whole(3)}
\* The records of a sequence of match records.
Records(obj) == {obj[i] : i \in 1 .. Len(obj)}
\* The GENDER match set of v0.6.3 for the tokens of the call and other bounds.
Rematch063(min, max) ==
    getMatches063(call.tokens.a, lexicon, Places063, min, max).GENDER

\* C11: for the tokens and lexicon of a v0.6.3 call matched with bounds
\* (min1, max1), getMatches with any bounds min2 >= min1 and max2 <= max1
\* gives a subset of the call's records, frequency and weight unchanged.
ThresholdMonotone ==
    (Matched /\ ver = "0.6.3") =>
        \A min2 \in NarrowMins, max2 \in NarrowMaxs :
            (~Less(min2, Min063) /\ ~Greater(max2, Max063)) =>
                LET narrow == Rematch063(min2, max2)
                IN  /\ Records(narrow) \subseteq Records(call.matches.a)
                    /\ Len(narrow) <= Len(call.matches.a)

\* Narrower bounds that remove one record and keep another as it was.
ThresholdMonotoneWitness ==
    /\ Matched
    /\ ver = "0.6.3"
    /\ Len(call.matches.a) = 2
    /\ \E min2 \in NarrowMins, max2 \in NarrowMaxs :
        /\ ~Less(min2, Min063) /\ ~Greater(max2, Max063)
        /\ Len(Rematch063(min2, max2)) = 1
        /\ Rematch063(min2, max2)[1] \in Records(call.matches.a)

\* An option as the caller supplied it; undefined when the options are
\* omitted or the option is not set.
SuppliedNGrams == IF IsNullish(optsArg) THEN Undefined ELSE optsArg.f.nGrams
SuppliedWcGrams == IF IsNullish(optsArg) THEN Undefined ELSE optsArg.f.wcGrams
\* The unigram tokens of the text, and the same with the bigrams and the
\* trigrams appended.
Unigrams == str.words
Expanded ==
    str.words \o arr2string(simplengrams(str, 2)) \o arr2string(simplengrams(str, 3))

\* C12: in v0.5.0 and v0.6.3 the tokens matched are the unigrams alone when
\* nGrams is false, and the unigrams followed by the bigrams and trigrams
\* when nGrams is true or not supplied.
NGramsOption ==
    (Matched /\ ver \in {"0.5.0", "0.6.3"}) =>
        call.tokens.a = IF SuppliedNGrams = Bool(FALSE) THEN Unigrams ELSE Expanded

\* What the tokenizer did for the text of the call: a call that matched an
\* empty text was given an empty array.
NoneOfCall == "array"
\* The options of the call with wcGrams set to w.
WithWcGrams(w) == Object([optsArg.f EXCEPT !.wcGrams = w])

\* C13: the word count is the number of unigram tokens when wcGrams is false
\* or not supplied, and the length of the token sequence matched (n-grams
\* included) when it is true; when v0.5.0 appends no n-grams, the result is
\* the same for every value of wcGrams.
WordCountOption ==
    /\ (Matched /\ ver \in {"0.5.0", "0.6.3"}) =>
        call.wordcount = Number(Whole(IF SuppliedWcGrams = Bool(TRUE)
                                      THEN Len(call.tokens.a) ELSE Len(Unigrams)))
    /\ (Matched /\ ver = "0.5.0" /\ ~IsNullish(optsArg) /\ ~Truthy(SuppliedNGrams)) =>
        \A w \in {Undefined, Bool(TRUE), Bool(FALSE)} :
            predictGender050(str, WithWcGrams(w), NoneOfCall, lexicon).result = call.result

\* Three words with n-grams and wcGrams: six tokens, word count 6.
WordCountOptionWitness ==
    /\ Matched
    /\ ver = "0.5.0"
    /\ SuppliedNGrams = Bool(TRUE)
    /\ SuppliedWcGrams = Bool(TRUE)
    /\ Len(Unigrams) = 3
    /\ call.wordcount = Number(Whole(6))

\* The output mode in effect in v1.0.0-rc.1: 'gender' when none is supplied.
Output100 ==
    IF IsNullish(optsArg) \/ optsArg.f.output = Undefined
    THEN Str("gender") ELSE optsArg.f.output
\* The output mode of a call of v4.0.0 or v1.0.0-rc.1.
Mode == IF ver = "4.0.0" THEN Output400 ELSE Output100
\* The labels and the signed codes.
Labels == {Str("Male"), Str("Female"), Str("Unknown")}
Codes == {Number(Whole(-1)), Number(Zero), Number(Whole(1))}
\* A call of v4.0.0 or v1.0.0-rc.1 on a text with words, which got as far
\* as the match set.
Tokenized ==
    /\ Matched
    /\ ver \in {"4.0.0", "1.0.0-rc.1"}
    /\ Len(str.words) > 0
\* The words of the rows of a 'matches' array.
RowWords(rows) == {rows[i].word : i \in 1 .. Len(rows)}

FullKeys ==
    (Tokenized /\ Mode = Str("full")) =>
        /\ call.result.t = "object"
        /\ DOMAIN call.result.f = {"number", "lex", "matches"}
        /\ call.result.f.number \in Codes
        /\ call.result.f.lex = call.lex

\* The call of the same version on the same text with the options o.
SameCall(o) ==
    CASE ver = "0.5.0" -> predictGender050(str, o, NoneOfCall, lexicon)
      [] ver = "1.0.0-rc.1" -> predictGender100(str, o, NoneOfCall, lexicon)
      [] ver = "4.0.0" -> predictGender400(str, o, NoneOfCall, lexicon)
\* The options of the call with the output mode left out.
WithoutOutput == Object([optsArg.f EXCEPT !.ret = Undefined, !.output = Undefined])
\* The caller asked for an output mode the versions do not know.
UnknownOutput ==
    /\ Done
    /\ ver \in {"0.5.0", "1.0.0-rc.1", "4.0.0"}
    /\ str.t = "string"
    /\ Len(str.words) > 0
    /\ ~IsNullish(optsArg)
    /\ {Str("other"), Number(Whole(1))} \cap {optsArg.f.ret, optsArg.f.output} # {}

\* C16: for an output mode that is not recognised, v0.5.0, v1.0.0-rc.1 and
\* v4.0.0 do not throw and return what the same call returns when no output
\* mode is supplied.
UnknownOutputIsDefault ==
    UnknownOutput =>
        /\ call.result.t # "throw"
        /\ call.result = SameCall(WithoutOutput).result

\* C17: when the caller of v4.0.0 supplies a min that is no number and
\* converts to none, the bound used is negative infinity, and no term that
\* occurs is left out for a weight that is too low.
NonNumericBoundDefaults ==
    (Done /\ ver = "4.0.0" /\ ~IsNullish(optsArg) /\ optsArg.f.min.t = "string") =>
        /\ call.opts.f.min = Number(NegInf)
        /\ Matched =>
              \A e \in Entries :
                 (e.word \in TokenSet /\ Less(e.weight, call.opts.f.max.x)) =>
                     e.word \in Found

\* The rows a call in 'matches' mode returned.
Rows == IF ver = "4.0.0" THEN call.result.f.GENDER.a ELSE call.result.a
\* The call returned the rows of the match set.
ReturnedRows ==
    /\ Matched
    /\ call.result.t # "throw"
    /\ CASE ver = "0.5.0" -> Ret050 = Str("matches")
         [] ver = "0.6.3" -> Output063 = Str("matches")
         [] OTHER -> Mode = Str("matches")
\* The sort keys of a row: final lexical value, weight, frequency, total.
LexKey(row) == Mul(Div(row.reps, call.wordcount.x), row.weight)
WeightKey(row) == row.weight
FreqKey(row) == row.reps
TotalKey(row) == Mul(row.reps, row.weight)
SuppliedSortBy == IF IsNullish(optsArg) THEN Undefined ELSE optsArg.f.sortBy

\* C18: when sortBy is not supplied, the rows v0.5.0 and v4.0.0 return in
\* 'matches' mode are in ascending order of (frequency / wordcount) * weight.
DefaultSortIsLex ==
    (ReturnedRows /\ ver \in {"0.5.0", "4.0.0"} /\ SuppliedSortBy = Undefined) =>
        \A i \in 1 .. Len(Rows) - 1 : ~Greater(LexKey(Rows[i]), LexKey(Rows[i + 1]))

\* The key the rows are sorted by, for the sortBy in effect: v0.5.0 knows
\* total (its default), weight and freq, v0.6.3 weight and freq, and both
\* take the lexical value otherwise, which v0.6.3 rounds to `places`.
SortKey(row) ==
    LET by == IF ver = "0.5.0" THEN Or(SuppliedSortBy, Str("total"))
              ELSE Or(SuppliedSortBy, Str("lex"))
    IN  CASE by = Str("total") -> TotalKey(row)
          [] by = Str("weight") -> WeightKey(row)
          [] by = Str("freq") -> FreqKey(row)
          [] OTHER -> IF ver = "0.6.3" THEN toFixed(LexKey(row), Places063)
                      ELSE LexKey(row)
\* Where the record of a term is in the match set.
Position(word) ==
    CHOOSE j \in 1 .. Len(call.matches.a) : call.matches.a[j].word = word

MostUsedFirst ==
    (ReturnedRows /\ ver = "0.6.3" /\ SuppliedSortBy = Str("freq")) =>
        \A i, j \in 1 .. Len(Rows) :
            Greater(FreqKey(Rows[i]), FreqKey(Rows[j])) => i < j

\* The columns of a row: [term, frequency, weight, lexicalValue] in v0.6.3
\* and [term, frequency, weight, total, lexicalValue] in v0.5.0.
Columns ==
    IF ver = "0.5.0" THEN {"word", "reps", "weight", "total", "lex"}
    ELSE {"word", "reps", "weight", "lex"}
\* The row describes the record of its term.
OfRecord(row) ==
    LET record == call.matches.a[Position(row.word)]
    IN  /\ DOMAIN row = Columns
        /\ row.word \in Found
        /\ row.reps = Whole(record.reps)
        /\ row.weight = record.weight
        /\ ver = "0.5.0" => row.total = TotalKey(row)

\* C21, as stated: the 'matches' array of v0.5.0 and v0.6.3 has one row per
\* match record, with lexicalValue = (frequency / wordcount) * weight and,
\* in v0.5.0, total = frequency * weight.
RowsDescribeRecords ==
    (ReturnedRows /\ ver \in {"0.5.0", "0.6.3"}) =>
        /\ Len(Rows) = Len(call.matches.a)
        /\ RowWords(Rows) = Found
        /\ \A i \in 1 .. Len(Rows) :
              OfRecord(Rows[i]) /\ Rows[i].lex = LexKey(Rows[i])

\* C21, amended: as stated, with the lexicalValue of a v0.6.3 row rounded
\* to `places` decimals.
RowsDescribeRecordsRounded ==
    (ReturnedRows /\ ver \in {"0.5.0", "0.6.3"}) =>
        /\ Len(Rows) = Len(call.matches.a)
        /\ RowWords(Rows) = Found
        /\ \A i \in 1 .. Len(Rows) :
              /\ OfRecord(Rows[i])
              /\ ver = "0.5.0" => Rows[i].lex = LexKey(Rows[i])
              /\ ver = "0.6.3" => Rows[i].lex = toFixed(LexKey(Rows[i]), Places063)

\* A row of v0.6.3 with places 1 whose lexicalValue is not the exact
\* product.
RowsDescribeRecordsRoundedWitness ==
    /\ ReturnedRows
    /\ ver = "0.6.3"
    /\ Places063 = 1
    /\ \E i \in 1 .. Len(Rows) :
        /\ OfRecord(Rows[i])
        /\ Rows[i].lex # LexKey(Rows[i])
        /\ Rows[i].lex = toFixed(LexKey(Rows[i]), 1)

\* The call at hand of a completed pair of calls.
Again == pc = "again"

\* The option k as the caller supplied it in the options o.
Supplied(o, k) == IF o \in {Undefined, Null} THEN Undefined ELSE o.f[k]

\* The call reached the line where the intercepts are defined.
HasInts(c) == "ints" \in DOMAIN c

\* C22: in v4.0.0 the intercept passed to the scorer for GENDER is 0 when
\* noInt is true and -0.06724152 when noInt is false or not supplied,
\* whatever the noInt of the call made before.
InterceptOption ==
    (ver = "4.0.0" /\ (Done \/ Again) /\ HasInts(call)) =>
        /\ call.ints = Number(IF Supplied(optsArg, "noInt") = Bool(TRUE)
                               THEN Zero ELSE Intercept)
        /\ (Again /\ HasInts(earlier.call)) =>
              earlier.call.ints =
                  Number(IF Supplied(earlier.optsArg, "noInt") = Bool(TRUE)
                         THEN Zero ELSE Intercept)

\* A call without options that follows a call with noInt true, and one with
\* noInt false that follows a call that left it out.
InterceptOptionWitness ==
    /\ ver = "4.0.0" /\ Again /\ HasInts(call) /\ HasInts(earlier.call)
    /\ \/ /\ earlier.call.ints = Number(Zero)
          /\ optsArg = Undefined
          /\ call.ints = Number(Intercept)
       \/ /\ earlier.optsArg # Undefined
          /\ Supplied(earlier.optsArg, "noInt") = Undefined
          /\ Supplied(optsArg, "noInt") = Bool(FALSE)
          /\ call.ints = Number(Intercept)

\* C23: a call made again with the same text returns what the call before
\* returned when it is given the options object of that call, and what a
\* first call without options returns when it is given none: the result
\* does not depend on the calls made before.
Idempotent ==
    Again =>
        /\ earlier.same =>
              /\ call.result = earlier.call.result
              /\ call.opts = earlier.call.opts
        /\ earlier.optsArg = Undefined => call.result = earlier.call.result
        /\ ~earlier.same =>
              call.result =
                  predictGender(ver, str, Undefined, NoneOf(earlier.call), lexicon).result

\* The options object was filled in by the call before, which scored the
\* text, and is passed again.
IdempotentWitness ==
    /\ Again /\ earlier.same
    /\ ver \in {"4.0.0", "0.6.3"}
    /\ earlier.optsArg # Undefined
    /\ earlier.optsArg # optsArg
    /\ call.matches # Undefined /\ call.matches.a # <<>>
    /\ call.result = earlier.call.result

\* C24: after a call returns, the options object the caller passed, each of
\* its fields included, is as it was before the call.
ArgumentsUnchanged == (Done /\ optsArg.t = "object") => call.opts = optsArg

\* C25: every number the caller of v0.6.3 supplies as min, max or places is
\* the value the computation uses, 0 included.
SuppliedNumbersUsed ==
    (Done /\ ver = "0.6.3" /\ optsArg.t = "object") =>
        \A k \in {"min", "max", "places"} :
            Supplied(optsArg, k).t = "number" => call.opts.f[k] = Supplied(optsArg, k)

\* The weight of a term of the lexicon, rounded to the places of the call.
Rounded063(word) ==
    toFixed((CHOOSE e \in Entries : e.word = word).weight, Places063)

\* C26: in v0.6.3 the weight of a term rounded to `places` is the value
\* compared against min and max, the weight of the match record, the weight
\* calcLex scores with and the weight prepareMatches puts in the row and
\* multiplies.
RoundedOnce ==
    (Matched /\ ver = "0.6.3") =>
        LET obj == call.matches.a
            wc == call.wordcount.x
            rounded == [i \in 1 .. Len(obj) |->
                           [reps |-> obj[i].reps, weight |-> Rounded063(obj[i].word)]]
        IN  /\ Found = {e.word : e \in {x \in Entries :
                            /\ x.word \in TokenSet
                            /\ Less(Min063, toFixed(x.weight, Places063))
                            /\ Less(toFixed(x.weight, Places063), Max063)}}
            /\ \A i \in 1 .. Len(obj) : obj[i].weight = Rounded063(obj[i].word)
            /\ Scored =>
                  call.lex.x = toFixed(FrequencyValue(rounded, wc.n, Intercept), Places063)
            /\ ReturnedRows =>
                  \A i \in 1 .. Len(Rows) :
                      /\ Rows[i].weight = Rounded063(Rows[i].word)
                      /\ Rows[i].lex =
                            toFixed(Mul(Div(Rows[i].reps, wc), Rounded063(Rows[i].word)),
                                    Places063)

\* A term whose weight 0.25 is 0.3 at one decimal place is matched and
\* scored.
RoundedOnceWitness ==
    /\ Matched /\ ver = "0.6.3" /\ Scored
    /\ Places063 = 1
    /\ \E i \in 1 .. Len(call.matches.a) :
          /\ call.matches.a[i].weight = Fin(3, 10, 0)
          /\ \E e \in Entries : e.word = call.matches.a[i].word /\ e.weight = Fin(1, 4, 0)

\* C27: for the tokens, the lexicon and the word count of a v0.5.0 call,
\* getMatches of v0.4.0 finds the same terms with the same weights, calcLex
\* of v0.4.0 recovers the frequencies of v0.5.0 from the arrays, and the two
\* pipelines compute the same score.
MatchEncodingEquivalent ==
    (Matched /\ ver = "0.5.0") =>
        LET old == getMatches040(call.tokens.a, lexicon).GENDER
            new == call.matches.a
            wc == call.wordcount.x.n
        IN  /\ calcLex040(old, wc, Intercept) = calcLex050(new, wc, Intercept)
            /\ Scored => calcLex040(old, wc, Intercept) = call.lex.x
            /\ Len(old) = Len(new)
            /\ \A i \in 1 .. Len(new) :
                  /\ old[i].weight = new[i].weight
                  /\ counts040(old)[i] = new[i].reps
                  /\ old[i].first =
                        IF new[i].reps = 1 THEN Str(new[i].word)
                        ELSE Array([j \in 1 .. new[i].reps |-> new[i].word])

\* A scored text in which one term occurs once and another more than once.
MatchEncodingEquivalentWitness ==
    /\ Scored /\ Matched /\ ver = "0.5.0"
    /\ \E i, j \in 1 .. Len(call.matches.a) :
          call.matches.a[i].reps = 1 /\ call.matches.a[j].reps > 1

\* The result of the call at hand when the output mode asked for is m, the
\* text and the other options being the same.
InMode(m) ==
    LET given == IF optsArg.t = "object" THEN optsArg.f ELSE NoFields
    IN  predictGender(ver, str, Object([given EXCEPT !.output = Str(m)]),
                      NoneOf(call), lexicon).result

RECURSIVE ColumnSum(_, _)
ColumnSum(rows, i) ==
    IF i > Len(rows) THEN Zero ELSE Add(rows[i].lex, ColumnSum(rows, i + 1))

\* C29: in v0.5.0 (numbers taken exactly) the score the same call returns
\* in 'lex' mode is the intercept plus the sum of the lexical-value column
\* of the rows returned in 'matches' mode, whichever sortBy is used, and the
\* total of a row is its lexical value multiplied by the word count.
RowsSumToScore ==
    (ReturnedRows /\ ver = "0.5.0") =>
        LET lex == predictGender050(str, Object([optsArg.f EXCEPT !.ret = Str("lex")]),
                                    NoneOf(call), lexicon).result
        IN  /\ lex = Number(Add(Intercept, ColumnSum(Rows, 1)))
            /\ \A i \in 1 .. Len(Rows) :
                  Rows[i].total = Mul(Rows[i].lex, call.wordcount.x)

\* Three rows, one of a term that occurs twice, sorted by weight.
RowsSumToScoreWitness ==
    /\ ReturnedRows /\ ver = "0.5.0"
    /\ SuppliedSortBy = Str("weight")
    /\ Len(Rows) >= 3
    /\ \E i \in 1 .. Len(Rows) : Rows[i].reps = Whole(2)

====
